---- MODULE Spec2Model ----
(***************************************************************************)
(* Verification model of few_shot/models.py.                               *)
(*                                                                         *)
(* The module is a set of independent neural-network components.  Each     *)
(* component has its own state variable and its own specification:         *)
(*   attn : one AttentionLSTM module and the forward call in progress      *)
(*   clf  : one FewShotClassifier (parameters, batch-norm buffers, mode)   *)
(*   act  : the binary activation modules and straight-through estimators  *)
(*   sbc  : one SemanticBinaryClassifier / few-shot encoder (shapes)       *)
(*   ae   : one SemanticBinaryAutoEncoder and the call in progress         *)
(* Tensors are modelled by their shape (a sequence of dimension sizes)     *)
(* where a claim is about shapes, and by small numeric values where a      *)
(* claim is about values.                                                  *)
(***************************************************************************)
EXTENDS Integers, Sequences, FiniteSets, TLC

VARIABLES attn, clf, res, act, sbc, ae

vars == <<attn, clf, res, act, sbc, ae>>

(***************************************************************************)
(* Shapes                                                                  *)
(***************************************************************************)
\* the shape of a tensor that does not exist (not allocated / not computed)
NoTensor == <<>>

\* the outcome of a tensor operation that raises on its operands' shapes
ShapeError == <<0>>

IsTensor(s) == s # NoTensor /\ s # ShapeError

\* a + b for two 2-D tensors: the shapes must agree (no broadcasting between
\* different sizes larger than one occurs for the shapes used here)
Add(a, b) ==
    IF IsTensor(a) /\ IsTensor(b) /\ a = b THEN a ELSE ShapeError

\* tensor.t() of a 2-D tensor
Transpose(a) ==
    IF IsTensor(a) /\ Len(a) = 2 THEN <<a[2], a[1]>> ELSE ShapeError

\* torch.mm(a, b): [n, m] x [m, p] -> [n, p]
Mm(a, b) ==
    IF IsTensor(a) /\ IsTensor(b) /\ Len(a) = 2 /\ Len(b) = 2 /\ a[2] = b[1]
    THEN <<a[1], b[2]>> ELSE ShapeError

\* tensor.softmax(dim=1) keeps the shape
Softmax(a) == a

(***************************************************************************)
(* AttentionLSTM                                                           *)
(***************************************************************************)
MaxSupport == 2      \* largest number of support embeddings
MaxQueries == 2      \* largest number of query embeddings
MaxDim == 2          \* largest embedding dimension / LSTM size
MaxUnroll == 2       \* largest unrolling_steps

\* nn.LSTMCell(input_size=size, hidden_size=size) applied to
\* (input, (hx, cx)): the input's width must be input_size, the states'
\* width hidden_size, and the three batch sizes must agree.  The result is
\* the pair (h', c'), both of shape [batch, hidden_size].
LSTMCell(size, input, hx, cx) ==
    IF /\ IsTensor(input) /\ IsTensor(hx) /\ IsTensor(cx)
       /\ input[2] = size /\ hx[2] = size /\ cx[2] = size
       /\ input[1] = hx[1] /\ input[1] = cx[1]
    THEN <<input[1], size>> ELSE ShapeError

\* AttentionLSTM.__init__(size, unrolling_steps); no call in progress
AttentionLSTM(size, unrolling_steps) ==
    [size |-> size, unrolling_steps |-> unrolling_steps,
     pc |-> "idle", support |-> NoTensor, queries |-> NoTensor,
     h_hat |-> NoTensor, c |-> NoTensor, h |-> NoTensor,
     k |-> 0, zero_allocs |-> 0, cell_updates |-> 0,
     ret |-> NoTensor, err |-> "none"]

AttnInit ==
    \E size \in 1..MaxDim, u \in 0..MaxUnroll : attn = AttentionLSTM(size, u)

\* forward(support, queries) is entered with two 2-D tensors; they live on
\* the device and have the dtype of the module (MatchingNetwork, lines 192-193)
AttnCall ==
    /\ attn.pc \in {"idle", "done", "error"}
    /\ \E s \in 1..MaxSupport, q \in 1..MaxQueries, ds \in 1..MaxDim, dq \in 1..MaxDim :
          attn' = [AttentionLSTM(attn.size, attn.unrolling_steps) EXCEPT
                      !.pc = "check", !.support = <<s, ds>>, !.queries = <<q, dq>>]
    /\ UNCHANGED <<clf, res, act, sbc, ae>>

\* a forward without the dimension check
DimensionCheckSkipped(support, queries) == TRUE

\* the explicit dimension check, lines 250-251
DimensionCheck(support, queries) ==
    support[Len(support)] = queries[Len(queries)]

AttnCheck ==
    /\ attn.pc = "check"
    /\ IF DimensionCheck(attn.support, attn.queries)
       THEN attn' = [attn EXCEPT !.pc = "alloc"]
       ELSE attn' = [attn EXCEPT !.pc = "error", !.err = "ValueError"]
    /\ UNCHANGED <<clf, res, act, sbc, ae>>

\* lines 253-257: h_hat = zeros_like(queries), c = zeros(batch_size, embedding_dim)
AttnAlloc ==
    /\ attn.pc = "alloc"
    /\ LET batch_size == attn.queries[1]
           embedding_dim == attn.queries[2]
       IN attn' = [attn EXCEPT !.pc = "loop",
                               !.h_hat = attn.queries,
                               !.c = <<batch_size, embedding_dim>>,
                               !.zero_allocs = 2,
                               !.k = 0]
    /\ UNCHANGED <<clf, res, act, sbc, ae>>

\* a loop bound that is off by one: range(self.unrolling_steps + 1)
LoopContinuesOneMore(k, unrolling_steps) == k < unrolling_steps + 1

\* the loop condition of `for k in range(self.unrolling_steps)`, line 259
LoopContinues(k, unrolling_steps) == k < unrolling_steps

\* one iteration of the loop body, lines 260-273
AttnStep ==
    /\ attn.pc = "loop"
    /\ LoopContinues(attn.k, attn.unrolling_steps)
    /\ LET h == Add(attn.h_hat, attn.queries)
           attentions == Softmax(Mm(h, Transpose(attn.support)))
           readout == Mm(attentions, attn.support)
           new == LSTMCell(attn.size, attn.queries, Add(h, readout), attn.c)
       IN IF new = ShapeError
          THEN attn' = [attn EXCEPT !.pc = "error", !.err = "RuntimeError", !.h = h]
          ELSE attn' = [attn EXCEPT !.h = h, !.h_hat = new, !.c = new,
                                    !.k = attn.k + 1,
                                    !.cell_updates = attn.cell_updates + 1]
    /\ UNCHANGED <<clf, res, act, sbc, ae>>

\* lines 275-277: h = h_hat + queries; return h
AttnReturn ==
    /\ attn.pc = "loop"
    /\ ~LoopContinues(attn.k, attn.unrolling_steps)
    /\ LET h == Add(attn.h_hat, attn.queries)
       IN IF h = ShapeError
          THEN attn' = [attn EXCEPT !.pc = "error", !.err = "RuntimeError"]
          ELSE attn' = [attn EXCEPT !.pc = "done", !.h = h, !.ret = h]
    /\ UNCHANGED <<clf, res, act, sbc, ae>>

AttnNext == AttnCall \/ AttnCheck \/ AttnAlloc \/ AttnStep \/ AttnReturn

(***************************************************************************)
(* FewShotClassifier                                                       *)
(*                                                                         *)
(* A batch is two examples; every activation tensor is abstracted to one   *)
(* integer per example, so a convolution or a linear layer is the affine   *)
(* map w*x + b and max pooling keeps the value.  Batch-norm buffers are    *)
(* fixed-point numbers in units of 1/StatScale.                            *)
(***************************************************************************)
NumBlocks == 4       \* for block in [1, 2, 3, 4]
StatScale == 20      \* fixed-point unit of running_mean / running_var
MomentumDen == 10    \* BatchNorm2d momentum = 1/10
MaxBatches == 1      \* largest num_batches_tracked
MaxOptSteps == 1     \* largest number of optimizer updates

Blocks == 1..NumBlocks

\* an optional argument: None, or a value
None == <<>>
Some(v) == <<v>>

ConvKey(block, layer, kind) ==
    "conv" \o ToString(block) \o "." \o ToString(layer) \o "." \o kind

\* keys subscripted by functional_forward: a missing one raises KeyError
RequiredKeys ==
    {ConvKey(b, 0, kind) : b \in Blocks, kind \in {"weight", "bias"}}
        \cup {"logits.weight", "logits.bias"}

\* keys read with weights.get: a missing one yields None
OptionalKeys == {ConvKey(b, 1, kind) : b \in Blocks, kind \in {"weight", "bias"}}

\* names of the module's parameters (named_parameters)
ParameterKeys == RequiredKeys \cup OptionalKeys

\* names of the module's batch-norm buffers
BufferKeys ==
    {ConvKey(b, 1, kind) : b \in Blocks,
        kind \in {"running_mean", "running_var", "num_batches_tracked"}}

Isqrt(n) == CHOOSE r \in 0..n : r * r <= n /\ n < (r + 1) * (r + 1)

Max(a, b) == IF a >= b THEN a ELSE b

\* F.conv2d(x, weights, biases, padding=1) on one value per example
Conv2d(x, w, b) == [i \in DOMAIN x |-> w * x[i] + b]

Relu(x) == [i \in DOMAIN x |-> Max(0, x[i])]

\* F.max_pool2d(x, kernel_size=2, stride=2) on one value per example
MaxPool2d(x) == x

\* F.linear(x, weight, bias)
Linear(x, w, b) == [i \in DOMAIN x |-> w * x[i] + b]

\* F.batch_norm(x, running_mean, running_var, weight, bias, training) for a
\* batch of two.  training: normalise with the statistics of the batch and,
\* when buffers are given, move them towards the batch statistics (unbiased
\* variance); otherwise normalise with the buffers.  weight / bias None
\* mean scale 1 / shift 0.  Returns the output and the buffers' new values.
BatchNorm(x, running_mean, running_var, weight, bias, training) ==
    LET sum == x[1] + x[2]
        dev == [i \in DOMAIN x |-> 2 * x[i] - sum]        \* 2 * (x - mean)
        var4 == (dev[1] * dev[1] + dev[2] * dev[2]) \div 2 \* 4 * biased variance
        gamma == IF weight = None THEN 1 ELSE weight[1]
        beta == IF bias = None THEN 0 ELSE bias[1]
        xhat == IF training
                THEN [i \in DOMAIN x |->
                        IF var4 = 0 THEN 0 ELSE dev[i] \div Isqrt(var4)]
                ELSE [i \in DOMAIN x |->
                        (x[i] * StatScale - running_mean[1])
                            \div Max(1, Isqrt(running_var[1] * StatScale))]
    IN [y |-> [i \in DOMAIN x |-> gamma * xhat[i] + beta],
        running_mean |->
            IF training /\ running_mean # None
            THEN Some(((MomentumDen - 1) * running_mean[1] + (StatScale * sum) \div 2)
                        \div MomentumDen)
            ELSE running_mean,
        running_var |->
            IF training /\ running_var # None
            THEN Some(((MomentumDen - 1) * running_var[1] + (StatScale * var4) \div 2)
                        \div MomentumDen)
            ELSE running_var]

\* a conv block that leaves the batch normalisation out
functional_conv_block_NoBatchNorm(x, weights, biases, bn_weights, bn_biases) ==
    MaxPool2d(Relu(Conv2d(x, weights, biases)))

\* functional_conv_block, lines 75-90
functional_conv_block(x, weights, biases, bn_weights, bn_biases) ==
    LET x1 == Conv2d(x, weights, biases)
        x2 == BatchNorm(x1, None, None, bn_weights, bn_biases, TRUE).y
        x3 == Relu(x2)
    IN MaxPool2d(x3)

\* weights[key] / weights.get(key) of a name-to-tensor mapping
HasKey(weights, key) == key \in DOMAIN weights

\* weights.get(key, 0): a default of 0 instead of None
GetOrZero(weights, key) == IF HasKey(weights, key) THEN Some(weights[key]) ELSE Some(0)

Get(weights, key) == IF HasKey(weights, key) THEN Some(weights[key]) ELSE None

NoOutput == <<>>

\* FewShotClassifier.functional_forward, lines 144-155, from block `block` on
RECURSIVE FunctionalBlocks(_, _, _)
FunctionalBlocks(x, weights, block) ==
    IF block > NumBlocks
    THEN IF HasKey(weights, "logits.weight") /\ HasKey(weights, "logits.bias")
         THEN [err |-> "none",
               out |-> Linear(x, weights["logits.weight"], weights["logits.bias"])]
         ELSE [err |-> "KeyError", out |-> NoOutput]
    ELSE IF HasKey(weights, ConvKey(block, 0, "weight"))
            /\ HasKey(weights, ConvKey(block, 0, "bias"))
         THEN FunctionalBlocks(
                functional_conv_block(x,
                    weights[ConvKey(block, 0, "weight")],
                    weights[ConvKey(block, 0, "bias")],
                    Get(weights, ConvKey(block, 1, "weight")),
                    Get(weights, ConvKey(block, 1, "bias"))),
                weights, block + 1)
         ELSE [err |-> "KeyError", out |-> NoOutput]

functional_forward(x, weights) == FunctionalBlocks(x, weights, 1)

\* conv_block, lines 46-58, as a module with its own parameters and buffers:
\* nn.BatchNorm2d counts the batch and updates its buffers in training mode
conv_block(x, m, block) ==
    LET x1 == Conv2d(x, m.params[ConvKey(block, 0, "weight")],
                        m.params[ConvKey(block, 0, "bias")])
        bn == BatchNorm(x1, Some(m.running_mean[block]), Some(m.running_var[block]),
                        Some(m.params[ConvKey(block, 1, "weight")]),
                        Some(m.params[ConvKey(block, 1, "bias")]),
                        m.training)
    IN [x |-> MaxPool2d(Relu(bn.y)),
        m |-> [m EXCEPT !.running_mean[block] = bn.running_mean[1],
                        !.running_var[block] = bn.running_var[1],
                        !.num_batches_tracked[block] =
                            IF m.training THEN @ + 1 ELSE @]]

\* FewShotClassifier.forward, lines 133-142, from block `block` on
RECURSIVE ForwardBlocks(_, _, _)
ForwardBlocks(x, m, block) ==
    IF block > NumBlocks
    THEN [out |-> Linear(x, m.params["logits.weight"], m.params["logits.bias"]),
          m |-> m]
    ELSE LET r == conv_block(x, m, block)
         IN ForwardBlocks(r.x, r.m, block + 1)

forward(x, m) == ForwardBlocks(x, m, 1)

\* FewShotClassifier.__init__, lines 113-131: random convolution and linear
\* weights, batch-norm scale 1 / shift 0, buffers mean 0 / variance 1,
\* training mode
FewShotClassifier(w, lw) ==
    [training |-> TRUE,
     params |-> [key \in ParameterKeys |->
                    CASE key = "logits.weight" -> lw
                      [] key = "logits.bias" -> 0
                      [] key \in {ConvKey(b, 0, "weight") : b \in Blocks} -> w
                      [] key \in {ConvKey(b, 1, "weight") : b \in Blocks} -> 1
                      [] OTHER -> 0],
     running_mean |-> [b \in Blocks |-> 0],
     running_var |-> [b \in Blocks |-> StatScale],
     num_batches_tracked |-> [b \in Blocks |-> 0],
     opt_steps |-> 0]

InitWeights == {1, 2}
Batches == {<<1, 3>>, <<2, 2>>}

NoWeights == [key \in {} |-> 0]

\* no call has returned yet, or its tensors have been dropped: tensors are
\* created per call and not retained
NoResult ==
    [op |-> "none", x |-> NoOutput, weights |-> NoWeights,
     out |-> NoOutput, err |-> "none"]

ClfInit ==
    /\ \E w \in InitWeights : clf = FewShotClassifier(w, 1)
    /\ res = NoResult

\* module.train() / module.eval()
Train ==
    /\ clf' = [clf EXCEPT !.training = TRUE]
    /\ res' = NoResult
    /\ UNCHANGED <<attn, act, sbc, ae>>

Eval ==
    /\ clf' = [clf EXCEPT !.training = FALSE]
    /\ res' = NoResult
    /\ UNCHANGED <<attn, act, sbc, ae>>

\* the updates an optimizer step applies, each to all parameters of a kind
Updates ==
    {[key \in ParameterKeys |->
        IF key \in {ConvKey(b, 0, "weight") : b \in Blocks} THEN 1 ELSE 0],
     [key \in ParameterKeys |->
        IF key \in OptionalKeys \cup {ConvKey(b, 0, "bias") : b \in Blocks}
        THEN 1 ELSE 0],
     [key \in ParameterKeys |->
        IF key = "logits.weight" THEN -2 ELSE IF key = "logits.bias" THEN 1 ELSE 0]}

\* the external optimizer updates the parameters between forward passes
OptimizerStep ==
    /\ clf.opt_steps < MaxOptSteps
    /\ \E update \in Updates :
          clf' = [clf EXCEPT !.params = [key \in ParameterKeys |-> @[key] + update[key]],
                             !.opt_steps = @ + 1]
    /\ res' = NoResult
    /\ UNCHANGED <<attn, act, sbc, ae>>

\* a call of forward(x)
Forward ==
    /\ clf.training => \A b \in Blocks : clf.num_batches_tracked[b] < MaxBatches
    /\ \E x \in Batches :
          LET r == forward(x, clf)
          IN /\ clf' = r.m
             /\ res' = [op |-> "forward", x |-> x, weights |-> NoWeights,
                        out |-> r.out, err |-> "none"]
    /\ UNCHANGED <<attn, act, sbc, ae>>

\* the mappings a caller passes to functional_forward
Restrict(weights, keys) == [key \in keys |-> weights[key]]

named_parameters(m) == m.params

\* the buffers of block b and of blocks b..NumBlocks, by name
BlockBuffers(m, b) ==
    ConvKey(b, 1, "running_mean") :> m.running_mean[b]
        @@ ConvKey(b, 1, "running_var") :> m.running_var[b]
        @@ ConvKey(b, 1, "num_batches_tracked") :> m.num_batches_tracked[b]

RECURSIVE BuffersFrom(_, _)
BuffersFrom(m, b) ==
    IF b > NumBlocks THEN NoWeights ELSE BlockBuffers(m, b) @@ BuffersFrom(m, b + 1)

state_dict(m) == m.params @@ BuffersFrom(m, 1)

\* the parameters after a simulated gradient step
FastWeights(m) ==
    [key \in ParameterKeys |->
        IF key \in RequiredKeys THEN m.params[key] + 1 ELSE m.params[key]]

\* keys a caller may have left out of the mapping
LeftOut ==
    {ConvKey(1, 0, "weight"), ConvKey(3, 0, "bias"), ConvKey(2, 1, "weight"),
     ConvKey(4, 1, "bias"), "logits.weight", "logits.bias"}

WeightMappings(m) ==
    {named_parameters(m), state_dict(m), FastWeights(m),
     Restrict(m.params, RequiredKeys)}
        \cup {Restrict(m.params, ParameterKeys \ {key}) : key \in LeftOut}

\* a functional pass that loads the mapping into the module and runs forward
FunctionalForwardLoading(x, weights) ==
    /\ LET m == [clf EXCEPT !.params =
                    [key \in ParameterKeys |->
                        IF HasKey(weights, key) THEN weights[key] ELSE @[key]]]
           r == functional_forward(x, weights)
       IN /\ clf' = forward(x, m).m
          /\ res' = [op |-> "functional_forward", x |-> x, weights |-> weights,
                     out |-> r.out, err |-> r.err]
    /\ UNCHANGED <<attn, act, sbc, ae>>

\* a call of functional_forward(x, weights): nothing of the module is
\* assigned, and F.batch_norm is given no buffers to update
FunctionalForward(x, weights) ==
    /\ LET r == functional_forward(x, weights)
       IN res' = [op |-> "functional_forward", x |-> x, weights |-> weights,
                  out |-> r.out, err |-> r.err]
    /\ UNCHANGED <<clf, attn, act, sbc, ae>>

FunctionalForwardCall ==
    \E x \in Batches, weights \in WeightMappings(clf) : FunctionalForward(x, weights)

ClfNext == Train \/ Eval \/ OptimizerStep \/ Forward \/ FunctionalForwardCall

(***************************************************************************)
(* Binary activations and straight-through estimators                      *)
(*                                                                         *)
(* Tensor elements are floating-point numbers.  The model uses a small     *)
(* binary floating-point format with the structure of IEEE 754: a number   *)
(* is an integer count of units of 1/One, the spacing of representable     *)
(* numbers doubles from one binade to the next, and every arithmetic       *)
(* result is rounded to the nearest representable number, ties to even.    *)
(* Inputs are finite numbers.                                              *)
(***************************************************************************)
One == 16            \* the float 1.0, in units
MaxLen == 1          \* largest number of elements of a tensor

Abs(n) == IF n < 0 THEN -n ELSE n

\* spacing of the representable numbers around magnitude a:
\* 1 unit below 1/2, 2 units in [1/2, 1), 4 units in [1, 2), ...
RECURSIVE SpacingFrom(_, _, _)
SpacingFrom(a, hi, s) == IF a < hi THEN s ELSE SpacingFrom(a, 2 * hi, 2 * s)

Spacing(a) == SpacingFrom(a, One \div 2, 1)

\* the multiple of s nearest to num/den (num >= 0, den > 0), ties to even
RoundTiesEven(num, den, s) ==
    LET q == num \div (s * den)
        r == num % (s * den)
    IN IF 2 * r < s * den THEN q * s
       ELSE IF 2 * r > s * den THEN (q + 1) * s
       ELSE IF q % 2 = 0 THEN q * s ELSE (q + 1) * s

\* the representable number nearest to num/den units (den > 0)
Fl(num, den) ==
    LET a == Abs(num)
        v == RoundTiesEven(a, den, Spacing(a \div den))
    IN IF num < 0 THEN -v ELSE v

FAdd(a, b) == Fl(a + b, 1)
FMul(a, b) == Fl(a * b, One)
FDiv(a, b) == IF b < 0 THEN Fl(-(a * One), -b) ELSE Fl(a * One, b)

Floats == {n \in (-2 * One)..(2 * One) : Fl(n, 1) = n}
Slopes == {-One, One \div 2, One, 2 * One}
Grads == {-One, 3}

Tensors(S) == UNION {[1..n -> S] : n \in 1..MaxLen}

\* nn.Hardtanh(): clamp to [-1, 1]
Hardtanh(x) == IF x < -One THEN -One ELSE IF x > One THEN One ELSE x

\* a squashing that forgets to halve: hardtanh(x) + 1.0
HardsigmoidNoHalving(x) == FAdd(Hardtanh(x), One)

\* Hardsigmoid.forward, lines 280-287: (hardtanh(x) + 1.0) / 2.0
Hardsigmoid(x) == FDiv(FAdd(Hardtanh(x), One), 2 * One)

\* rounding to the nearest integer with ties away from zero
TorchRoundHalfUp(x) ==
    LET q == Abs(x) \div One
        r == Abs(x) % One
        v == IF 2 * r >= One THEN (q + 1) * One ELSE q * One
    IN IF x < 0 THEN -v ELSE v

\* torch.round of one element: nearest integer, ties to even
TorchRound(x) ==
    LET v == RoundTiesEven(Abs(x), 1, One)
    IN IF x < 0 THEN -v ELSE v

\* torch.bernoulli of one element: the values a draw with probability p of
\* 1 can give
Bernoulli(p) == IF p <= 0 THEN {0} ELSE IF p >= One THEN {One} ELSE {0, One}

\* RoundFunctionST.forward, lines 293-309
RoundFunctionST_forward(input) == [i \in DOMAIN input |-> TorchRound(input[i])]

\* BernoulliFunctionST.forward, lines 337-339: the set of possible samples
BernoulliFunctionST_forward(input) ==
    {out \in [DOMAIN input -> {0, One}] :
        \A i \in DOMAIN input : out[i] \in Bernoulli(input[i])}

\* a saturating variant of the estimator: no gradient where the input is 0 or 1
BackwardSaturating(ctx, grad_output) ==
    [i \in DOMAIN grad_output |->
        IF ctx.input[i] \in {0, One} THEN 0 ELSE grad_output[i]]

\* RoundFunctionST.backward, lines 311-332
RoundFunctionST_backward(ctx, grad_output) == grad_output

\* BernoulliFunctionST.backward, lines 341-343
BernoulliFunctionST_backward(ctx, grad_output) == grad_output

NoValue == <<>>

\* the module is built and handed one input [x, slope]
ActInit ==
    \E x \in Tensors(Floats), slope \in Slopes :
        act = [module |-> "none", estimator |-> "ST", x |-> x, slope |-> slope,
               sx |-> NoValue, probs |-> NoValue, out |-> NoValue,
               grad_output |-> NoValue, grad_input |-> NoValue]

\* the squashed signal self.act(slope * x) of both activation modules
Squash(x, slope) ==
    LET sx == [i \in DOMAIN x |-> FMul(slope, x[i])]
    IN [sx |-> sx, probs |-> [i \in DOMAIN x |-> Hardsigmoid(sx[i])]]

\* DeterministicBinaryActivation(estimator='ST').forward([x, slope]), lines 365-371
DeterministicForward ==
    /\ act.module = "none"
    /\ LET s == Squash(act.x, act.slope)
       IN act' = [act EXCEPT !.module = "deterministic",
                             !.sx = s.sx, !.probs = s.probs,
                             !.out = RoundFunctionST_forward(s.probs)]
    /\ UNCHANGED <<attn, clf, res, sbc, ae>>

\* StochasticBinaryActivation(estimator='ST').forward([x, slope]), lines 389-395
StochasticForward ==
    /\ act.module = "none"
    /\ LET s == Squash(act.x, act.slope)
       IN \E out \in BernoulliFunctionST_forward(s.probs) :
             act' = [act EXCEPT !.module = "stochastic",
                                !.sx = s.sx, !.probs = s.probs, !.out = out]
    /\ UNCHANGED <<attn, clf, res, sbc, ae>>

\* autograd calls the estimator's backward with the gradient of the loss
\* with respect to the forward output
Backward ==
    /\ act.module \in {"deterministic", "stochastic"}
    /\ act.grad_output = NoValue
    /\ \E grad_output \in [DOMAIN act.out -> Grads] :
          LET ctx == [input |-> act.probs, output |-> act.out]
          IN act' = [act EXCEPT
                        !.grad_output = grad_output,
                        !.grad_input =
                            IF act.module = "deterministic"
                            THEN RoundFunctionST_backward(ctx, grad_output)
                            ELSE BernoulliFunctionST_backward(ctx, grad_output)]
    /\ UNCHANGED <<attn, clf, res, sbc, ae>>

ActNext == DeterministicForward \/ StochasticForward \/ Backward

(***************************************************************************)
(* SemanticBinaryClassifier and get_few_shot_encoder: shapes               *)
(***************************************************************************)
OutChannels == 64    \* conv_block(..., 64)
KernelSize == 3      \* conv_size=3
Padding == 1         \* padding=1
PoolSize == 2        \* MaxPool2d(kernel_size=2, stride=2)
MaxBatch == 2        \* largest batch size of an input

ChannelChoices == {1, 3}
ConvLayerChoices == 1..4
ImageSizes == {8, 28, 84}

\* nn.Conv2d(in_channels, out_channels, 3, padding=1) on [B, C, H, W]
Conv2dShape(x, in_channels, out_channels) ==
    IF IsTensor(x) /\ Len(x) = 4 /\ x[2] = in_channels
       /\ x[3] + 2 * Padding >= KernelSize /\ x[4] + 2 * Padding >= KernelSize
    THEN <<x[1], out_channels,
           x[3] + 2 * Padding - KernelSize + 1, x[4] + 2 * Padding - KernelSize + 1>>
    ELSE ShapeError

\* pooling with ceil_mode=True: ceil((H - 2) / 2) + 1
MaxPool2dShapeCeil(x) ==
    IF IsTensor(x) /\ Len(x) = 4 /\ x[3] >= PoolSize /\ x[4] >= PoolSize
    THEN <<x[1], x[2], (x[3] - PoolSize + PoolSize - 1) \div PoolSize + 1,
                       (x[4] - PoolSize + PoolSize - 1) \div PoolSize + 1>>
    ELSE ShapeError

\* nn.MaxPool2d(kernel_size=2, stride=2) on [B, C, H, W]: floor((H - 2) / 2) + 1
MaxPool2dShape(x) ==
    IF IsTensor(x) /\ Len(x) = 4 /\ x[3] >= PoolSize /\ x[4] >= PoolSize
    THEN <<x[1], x[2], (x[3] - PoolSize) \div PoolSize + 1,
                       (x[4] - PoolSize) \div PoolSize + 1>>
    ELSE ShapeError

\* conv_block, lines 46-58: batch norm and ReLU keep the shape
ConvBlockShape(x, in_channels, out_channels) ==
    MaxPool2dShape(Conv2dShape(x, in_channels, out_channels))

\* x.view(x.size(0), -1) / Flatten.forward
FlattenShape(x) ==
    IF IsTensor(x) /\ Len(x) = 4 THEN <<x[1], x[2] * x[3] * x[4]>> ELSE ShapeError

\* nn.Linear(in_features, out_features) on [B, F]
LinearShape(x, in_features, out_features) ==
    IF IsTensor(x) /\ x[Len(x)] = in_features
    THEN [x EXCEPT ![Len(x)] = out_features] ELSE ShapeError

\* the width SemanticBinaryClassifier.__init__ gives the dense layer, lines 415-425
DenseWidth(n_conv_layers) ==
    IF n_conv_layers >= 4 THEN 64
    ELSE IF n_conv_layers >= 3 THEN 576
    ELSE IF n_conv_layers >= 2 THEN 3136
    ELSE 12544

\* the conv blocks forward applies, lines 443-449 (all four in the encoder)
AppliesBlock(kind, n_conv_layers, block) ==
    IF kind = "encoder" THEN block <= 4
    ELSE block = 1 \/ (block <= 4 /\ n_conv_layers >= block)

SizeBinaryLayer == 10    \* size_binary_layer=10

\* SemanticBinaryClassifier.__init__ / get_few_shot_encoder
ShapeModule(kind, num_input_channels, n_conv_layers) ==
    [kind |-> kind, num_input_channels |-> num_input_channels,
     n_conv_layers |-> n_conv_layers, n |-> DenseWidth(n_conv_layers),
     pc |-> "idle", input |-> NoTensor, x |-> NoTensor, blocks_done |-> 0,
     flat |-> NoTensor, err |-> "none"]

SbcInit ==
    \/ \E c \in ChannelChoices, d \in ConvLayerChoices :
          sbc = ShapeModule("classifier", c, d)
    \/ \E c \in ChannelChoices : sbc = ShapeModule("encoder", c, 4)

\* forward(x) is entered with an image batch [B, C, H, W]
SbcCall ==
    /\ sbc.pc \in {"idle", "done", "error"}
    /\ \E b \in 1..MaxBatch, c \in ChannelChoices, size \in ImageSizes :
          sbc' = [ShapeModule(sbc.kind, sbc.num_input_channels, sbc.n_conv_layers)
                    EXCEPT !.pc = "conv", !.input = <<b, c, size, size>>,
                           !.x = <<b, c, size, size>>]
    /\ UNCHANGED <<attn, clf, res, act, ae>>

\* the next conv block of the stack
SbcConvBlock ==
    /\ sbc.pc = "conv"
    /\ AppliesBlock(sbc.kind, sbc.n_conv_layers, sbc.blocks_done + 1)
    /\ LET in_channels == IF sbc.blocks_done = 0 THEN sbc.num_input_channels
                          ELSE OutChannels
           y == ConvBlockShape(sbc.x, in_channels, OutChannels)
       IN IF y = ShapeError
          THEN sbc' = [sbc EXCEPT !.pc = "error", !.err = "RuntimeError"]
          ELSE sbc' = [sbc EXCEPT !.x = y, !.blocks_done = @ + 1]
    /\ UNCHANGED <<attn, clf, res, act, ae>>

\* x = x.view(x.size(0), -1); the encoder returns the flattened tensor
SbcFlatten ==
    /\ sbc.pc = "conv"
    /\ ~AppliesBlock(sbc.kind, sbc.n_conv_layers, sbc.blocks_done + 1)
    /\ LET y == FlattenShape(sbc.x)
       IN sbc' = [sbc EXCEPT !.x = y, !.flat = y,
                             !.pc = IF sbc.kind = "encoder" THEN "done" ELSE "dense"]
    /\ UNCHANGED <<attn, clf, res, act, ae>>

\* the dense layer of width n that follows (dense1 or dense2), lines 451-453
SbcDense ==
    /\ sbc.pc = "dense"
    /\ LET y == LinearShape(sbc.x, sbc.n, SizeBinaryLayer)
       IN IF y = ShapeError
          THEN sbc' = [sbc EXCEPT !.pc = "error", !.err = "RuntimeError"]
          ELSE sbc' = [sbc EXCEPT !.x = y, !.pc = "done"]
    /\ UNCHANGED <<attn, clf, res, act, ae>>

SbcNext == SbcCall \/ SbcConvBlock \/ SbcFlatten \/ SbcDense

(***************************************************************************)
(* SemanticBinaryAutoEncoder                                               *)
(*                                                                         *)
(* The tensor steps (encoder, decoder, concatenation) either complete or   *)
(* raise, depending on the shapes they are given; the model allows both    *)
(* outcomes.  What the model follows exactly is how each call binds its    *)
(* arguments to the parameters of the method it calls.                     *)
(***************************************************************************)
MaxNoise == 2        \* largest n_noise of a direct call

\* a signature that gives n_noise a default value
binary_space_decoder_signature_defaulted ==
    [params |-> <<"binary_latent_space", "n_noise">>, defaults |-> {"n_noise"}]

\* def binary_space_decoder(self, binary_latent_space, n_noise), line 500
binary_space_decoder_signature ==
    [params |-> <<"binary_latent_space", "n_noise">>, defaults |-> {}]

\* Python binds positional arguments to parameters in order; a parameter
\* left without argument and without default raises TypeError
BindArguments(signature, args) ==
    IF Len(args) > Len(signature.params) THEN "TypeError"
    ELSE IF \E i \in (Len(args) + 1)..Len(signature.params) :
                signature.params[i] \notin signature.defaults
         THEN "TypeError"
         ELSE "bound"

SemanticBinaryAutoEncoder(size_binary_layer, size_continue_layer, stochastic) ==
    [size_binary_layer |-> size_binary_layer,
     size_continue_layer |-> size_continue_layer,
     stochastic |-> stochastic,
     call |-> "none", pc |-> "idle", args |-> <<>>, batch |-> 0,
     ret |-> <<>>, err |-> "none"]

AeInit ==
    \E sb \in 1..2, sc \in 1..2, st \in BOOLEAN :
        ae = SemanticBinaryAutoEncoder(sb, sc, st)

AeIdle(a) ==
    SemanticBinaryAutoEncoder(a.size_binary_layer, a.size_continue_layer, a.stochastic)

\* forward(x) is entered, line 507
AeForwardCall ==
    /\ ae.pc \in {"idle", "done", "error"}
    /\ \E b \in 1..MaxBatch :
          ae' = [AeIdle(ae) EXCEPT !.call = "forward", !.pc = "encoder", !.batch = b]
    /\ UNCHANGED <<attn, clf, res, act, sbc>>

\* bina, cont = self.encoder(x), line 508
AeEncoder ==
    /\ ae.pc = "encoder"
    /\ \/ ae' = [ae EXCEPT !.pc = "decoder"]
       \/ ae' = [ae EXCEPT !.pc = "error", !.err = "RuntimeError"]
    /\ UNCHANGED <<attn, clf, res, act, sbc>>

\* x1 = self.decoder(torch.cat((bina, cont))), line 509; then line 510 calls
\* self.binary_space_decoder(bina)
AeDecoder ==
    /\ ae.pc = "decoder"
    /\ \/ ae' = [ae EXCEPT !.pc = "binary_space_decoder", !.args = <<"bina">>]
       \/ ae' = [ae EXCEPT !.pc = "error", !.err = "RuntimeError"]
    /\ UNCHANGED <<attn, clf, res, act, sbc>>

\* a caller invokes binary_space_decoder itself, with or without n_noise
AeDirectCall ==
    /\ ae.pc \in {"idle", "done", "error"}
    /\ \E b \in 1..MaxBatch, args \in {<<"bina">>} \cup {<<"bina", n>> : n \in 1..MaxNoise} :
          ae' = [AeIdle(ae) EXCEPT !.call = "binary_space_decoder",
                                   !.pc = "binary_space_decoder",
                                   !.args = args, !.batch = b]
    /\ UNCHANGED <<attn, clf, res, act, sbc>>

\* binary_space_decoder, lines 500-505: bind the arguments, then sample the
\* noise, concatenate and decode; in forward the result is x2 and line 511
\* returns the pair x1, x2
AeBinarySpaceDecoder ==
    /\ ae.pc = "binary_space_decoder"
    /\ IF BindArguments(binary_space_decoder_signature, ae.args) = "TypeError"
       THEN ae' = [ae EXCEPT !.pc = "error", !.err = "TypeError"]
       ELSE \/ ae' = [ae EXCEPT !.pc = "done",
                                !.ret = IF ae.call = "forward"
                                        THEN <<"x1", "x2">> ELSE <<"x">>]
            \/ ae' = [ae EXCEPT !.pc = "error", !.err = "RuntimeError"]
    /\ UNCHANGED <<attn, clf, res, act, sbc>>

AeNext == AeForwardCall \/ AeEncoder \/ AeDecoder \/ AeDirectCall
            \/ AeBinarySpaceDecoder

(***************************************************************************)
(* Specifications: one per component; the other components stay as built.  *)
(***************************************************************************)
AttnBuilt == AttentionLSTM(1, 0)
ClfBuilt == FewShotClassifier(1, 1)
ResBuilt == NoResult
ActBuilt == [module |-> "none", estimator |-> "ST", x |-> <<0>>, slope |-> One,
             sx |-> NoValue, probs |-> NoValue, out |-> NoValue,
             grad_output |-> NoValue, grad_input |-> NoValue]
SbcBuilt == ShapeModule("classifier", 1, 4)
AeBuilt == SemanticBinaryAutoEncoder(1, 1, TRUE)

InitAttention ==
    /\ AttnInit
    /\ clf = ClfBuilt /\ res = ResBuilt /\ act = ActBuilt
    /\ sbc = SbcBuilt /\ ae = AeBuilt

SpecAttention == InitAttention /\ [][AttnNext]_vars

\* a call that was entered runs on: the steps of forward are sequential code
FairSpecAttention ==
    /\ InitAttention /\ [][AttnNext]_vars
    /\ WF_vars(AttnCheck) /\ WF_vars(AttnAlloc)
    /\ WF_vars(AttnStep) /\ WF_vars(AttnReturn)

InitClassifier ==
    /\ ClfInit
    /\ attn = AttnBuilt /\ act = ActBuilt /\ sbc = SbcBuilt /\ ae = AeBuilt

SpecClassifier == InitClassifier /\ [][ClfNext]_vars

InitActivation ==
    /\ ActInit
    /\ attn = AttnBuilt /\ clf = ClfBuilt /\ res = ResBuilt
    /\ sbc = SbcBuilt /\ ae = AeBuilt

SpecActivation == InitActivation /\ [][ActNext]_vars

InitShapes ==
    /\ SbcInit
    /\ attn = AttnBuilt /\ clf = ClfBuilt /\ res = ResBuilt
    /\ act = ActBuilt /\ ae = AeBuilt

SpecShapes == InitShapes /\ [][SbcNext]_vars

InitAutoEncoder ==
    /\ AeInit
    /\ attn = AttnBuilt /\ clf = ClfBuilt /\ res = ResBuilt
    /\ act = ActBuilt /\ sbc = SbcBuilt

SpecAutoEncoder == InitAutoEncoder /\ [][AeNext]_vars

(***************************************************************************)
(* Properties                                                              *)
(***************************************************************************)
LastDim(shape) == shape[Len(shape)]

AttnEntered == attn.pc \notin {"idle", "check"}

\* C1: a forward call whose support and queries differ in their last
\* dimension ends in ValueError, and it does so before anything is computed:
\* no zero state allocated, no unrolling step run, no LSTM cell update, and
\* nothing returned.
C1_MismatchFailsBeforeComputation ==
    (AttnEntered /\ LastDim(attn.support) # LastDim(attn.queries)) =>
        /\ attn.pc = "error" /\ attn.err = "ValueError"
        /\ attn.zero_allocs = 0 /\ attn.h_hat = NoTensor /\ attn.c = NoTensor
        /\ attn.k = 0 /\ attn.cell_updates = 0 /\ attn.h = NoTensor
        /\ attn.ret = NoTensor

C1_Witness ==
    /\ attn.pc = "error" /\ attn.err = "ValueError"
    /\ LastDim(attn.support) # LastDim(attn.queries)
    /\ attn.unrolling_steps > 0

AttnValid ==
    /\ LastDim(attn.support) = LastDim(attn.queries)
    /\ LastDim(attn.queries) = attn.size

C2_Original ==
    \A x \in Batches :
        functional_forward(x, named_parameters(clf)).out = forward(x, clf).out

\* C2, amended: while the module is in training mode, functional_forward
\* with the module's own parameters gives the output of forward, for every
\* input batch, whatever the parameters and the batch-norm running
\* statistics are.
C2_FunctionalEqualsForwardInTraining ==
    clf.training =>
        \A x \in Batches :
            functional_forward(x, named_parameters(clf)).out = forward(x, clf).out

C2_Witness ==
    /\ clf.training /\ clf.opt_steps > 0 /\ clf.num_batches_tracked[1] > 0
    /\ res.op = "functional_forward" /\ res.weights = named_parameters(clf)
    /\ res.out = forward(res.x, clf).out
    /\ res.out[1] # res.out[2]

\* C3 as stated: the call succeeds only for a mapping holding exactly the
\* expected keys (the required ones, with or without batch-norm entries).
C3_Original ==
    res.op = "functional_forward" =>
        (res.err = "none" <=>
            /\ RequiredKeys \subseteq DOMAIN res.weights
            /\ DOMAIN res.weights \subseteq RequiredKeys \cup OptionalKeys)

\* the mapping with every absent batch-norm entry set to scale 1 / shift 0
WithIdentityBatchNorm(weights) ==
    [key \in DOMAIN weights \cup OptionalKeys |->
        IF key \in DOMAIN weights THEN weights[key]
        ELSE IF key \in {ConvKey(b, 1, "weight") : b \in Blocks} THEN 1 ELSE 0]

\* C3, amended: the mapping must contain at least the required keys
\* (conv{b}.0.weight, conv{b}.0.bias for b = 1..4, logits.weight,
\* logits.bias): the call fails with KeyError and returns nothing exactly
\* when one of them is missing.  Keys the pass does not read are ignored.
\* An absent batch-norm entry is no failure and gives that block's batch
\* norm scale 1 / shift 0.
C3_RequiredKeysOnly ==
    res.op = "functional_forward" =>
        /\ res.err = "KeyError" <=> ~(RequiredKeys \subseteq DOMAIN res.weights)
        /\ res.err \in {"none", "KeyError"}
        /\ res.err = "KeyError" => res.out = NoOutput
        /\ res.err = "none" =>
              /\ res.out # NoOutput
              /\ res.out = functional_forward(res.x, WithIdentityBatchNorm(res.weights)).out

C3_Witness ==
    /\ res.op = "functional_forward" /\ res.err = "none"
    /\ DOMAIN res.weights = RequiredKeys
    /\ res.out[1] # res.out[2]

\* C4: every step that is a functional_forward call, with any mapping and in
\* either mode, leaves the module's parameters, batch-norm running
\* statistics, batch counters and mode as they were; and with the module's
\* own parameters its output is the one forward computes from current-batch
\* statistics (training-mode batch norm), also when the module is in
\* evaluation mode.
C4_FunctionalForwardLeavesModule ==
    [][res'.op = "functional_forward" =>
          /\ clf' = clf
          /\ res'.weights = named_parameters(clf) =>
                res'.out = forward(res'.x, [clf EXCEPT !.training = TRUE]).out]_vars

C4_Witness ==
    /\ res.op = "functional_forward" /\ res.err = "none"
    /\ ~clf.training
    /\ clf.num_batches_tracked[1] > 0 /\ clf.running_mean[1] # 0
    /\ res.weights = FastWeights(clf)

ActForwardDone == act.module \in {"deterministic", "stochastic"}

C6_BackwardIsIdentity ==
    act.grad_output # NoValue =>
        /\ DOMAIN act.grad_input = DOMAIN act.grad_output
        /\ \A i \in DOMAIN act.grad_output : act.grad_input[i] = act.grad_output[i]

C6_Witness ==
    /\ act.module = "deterministic" /\ act.grad_output # NoValue
    /\ \E i \in DOMAIN act.grad_output :
          /\ act.probs[i] \in {0, One}
          /\ act.grad_output[i] # 0 /\ act.grad_input[i] = act.grad_output[i]

\* the documented flattened width after d conv blocks of a 28x28 input
ExpectedWidth(d) ==
    CASE d = 1 -> 12544
      [] d = 2 -> 3136
      [] d = 3 -> 576
      [] d = 4 -> 64

\* C7: for a 28x28 input the flattened width after the d conv blocks of a
\* SemanticBinaryClassifier with n_conv_layers = d is the width its
\* constructor gives the following linear layer: 12544, 3136, 576, 64 for
\* d = 1..4; the 4-block encoder of get_few_shot_encoder yields width 64.
C7_FlattenedWidthMatchesDense ==
    (sbc.flat # NoTensor /\ sbc.input[3] = 28) =>
        /\ sbc.flat[1] = sbc.input[1]
        /\ sbc.flat[2] = ExpectedWidth(sbc.blocks_done)
        /\ sbc.kind = "classifier" =>
              /\ sbc.blocks_done = sbc.n_conv_layers
              /\ sbc.flat[2] = sbc.n
              /\ sbc.err = "none"
        /\ sbc.kind = "encoder" => sbc.flat[2] = 64

C7_Witness ==
    /\ sbc.kind = "classifier" /\ sbc.n_conv_layers = 3
    /\ sbc.pc = "done" /\ sbc.input[3] = 28 /\ sbc.flat[2] = 576

\* C9: binary_space_decoder requires n_noise: a call that passes the binary
\* code alone fails with TypeError.  forward calls it that way, so no call
\* of forward returns the pair (reconstruction, synthetic example): a call
\* of forward that is over has ended in an error.
C9_ForwardNeverReturns ==
    /\ ae.call = "forward" =>
          /\ ae.ret = <<>> /\ ae.pc # "done"
          /\ ae.pc \in {"encoder", "decoder", "binary_space_decoder", "error"}
          /\ ae.pc = "error" <=> ae.err # "none"
    /\ (ae.call = "binary_space_decoder" /\ Len(ae.args) = 1
            /\ ae.pc # "binary_space_decoder") =>
          ae.pc = "error" /\ ae.err = "TypeError" /\ ae.ret = <<>>

C9_Witness ==
    ae.call = "forward" /\ ae.pc = "error" /\ ae.err = "TypeError"

\* half the spacing of the floats just above 1.0
HalfUlpOfOne == Spacing(One) \div 2

DeterministicDone == act.module = "deterministic"

\* C10 as stated: the output is 1 exactly when slope*x > 0.
C10_Original ==
    DeterministicDone =>
        \A i \in DOMAIN act.out : act.out[i] = One <=> act.sx[i] > 0

\* C10, amended: the output is 1 exactly when slope*x is greater than half
\* the spacing of the floats just above 1.0 (a smaller positive slope*x is
\* lost when 1.0 is added to it, the Hardsigmoid value is exactly 0.5, and
\* round half to even gives 0).  So slope*x <= 0 gives 0, slope*x = 0 has
\* Hardsigmoid value exactly 0.5 and gives 0, slope*x >= 1 gives 1 and
\* slope*x <= -1 gives 0.
C10_ThresholdAboveZero ==
    DeterministicDone =>
        \A i \in DOMAIN act.out :
            /\ act.out[i] = One <=> act.sx[i] > HalfUlpOfOne
            /\ act.out[i] = One <=> 2 * act.probs[i] > One
            /\ act.out[i] \in {0, One}
            /\ act.sx[i] = 0 => 2 * act.probs[i] = One /\ act.out[i] = 0
            /\ act.sx[i] <= 0 => act.out[i] = 0
            /\ act.sx[i] >= One => act.out[i] = One

C10_Witness ==
    /\ DeterministicDone
    /\ \E i \in DOMAIN act.out : act.sx[i] = 0 /\ act.out[i] = 0 /\ 2 * act.probs[i] = One

====
